---- MODULE Spec2Model ----
(***************************************************************************)
(* A model of MainView (src/views/main_view.py): the four tabbed regions   *)
(* with their "[+]" tabs, the command history navigator and the polling    *)
(* broadcast.  Python strings are sequences of one-character strings, so   *)
(* that startswith, removeprefix, replace, slicing, strip and f-string     *)
(* formatting are computed rather than assumed.                            *)
(***************************************************************************)
EXTENDS Integers, Sequences, FiniteSets, TLC

\* ------------------------------------------------------------------ bounds
\* The most add_tab calls that get past the region check (all regions together),
\* and the most commands the history holds, when the tab regions or the
\* command input are explored alone.
MaxTabs == 2
MaxHistory == 2
\* The same two bounds when tab regions and command input are explored together.
MaxTabsAll == 1
MaxHistoryAll == 1
\* The longest run of consecutive Up presses that is counted.
MaxUps == 3
\* The most responses the CoreMiner process makes available.
MaxResponses == 2

\* ---------------------------------------------------------------- strings
Digits == <<"0", "1", "2", "3", "4", "5", "6", "7", "8", "9">>

RECURSIVE IntToStr(_)
\* str(n) of an f-string, n >= 0
IntToStr(n) ==
    IF n < 10 THEN <<Digits[n + 1]>>
    ELSE IntToStr(n \div 10) \o <<Digits[(n % 10) + 1]>>

\* s.startswith(prefix)
StartsWith(s, prefix) ==
    /\ Len(prefix) <= Len(s)
    /\ SubSeq(s, 1, Len(prefix)) = prefix

\* s[n:]
DropFirst(s, n) == SubSeq(s, n + 1, Len(s))

\* s.removeprefix(prefix)
RemovePrefix(s, prefix) ==
    IF StartsWith(s, prefix) THEN DropFirst(s, Len(prefix)) ELSE s

RECURSIVE ReplaceAll(_, _, _)
\* s.replace(old, new), old non-empty: every occurrence, left to right
ReplaceAll(s, old, new) ==
    IF s = << >> THEN << >>
    ELSE IF StartsWith(s, old) THEN new \o ReplaceAll(DropFirst(s, Len(old)), old, new)
    ELSE <<Head(s)>> \o ReplaceAll(Tail(s), old, new)

Whitespace == {" ", "\t", "\n"}

RECURSIVE LStrip(_)
LStrip(s) ==
    IF s # << >> /\ Head(s) \in Whitespace THEN LStrip(Tail(s)) ELSE s

RECURSIVE RStrip(_)
RStrip(s) ==
    IF s # << >> /\ s[Len(s)] \in Whitespace THEN RStrip(SubSeq(s, 1, Len(s) - 1)) ELSE s

\* s.strip()
Strip(s) == RStrip(LStrip(s))

\* ------------------------------------------------------- string literals
S_add_ == <<"a", "d", "d", "_">>
S_delete_ == <<"d", "e", "l", "e", "t", "e", "_">>
S_tab_ == <<"_", "t", "a", "b", "_">>
S_us == <<"_">>

main_tabs == <<"m", "a", "i", "n", "_", "t", "a", "b", "s">>
small_tabs_1 == <<"s", "m", "a", "l", "l", "_", "t", "a", "b", "s", "_", "1">>
small_tabs_2 == <<"s", "m", "a", "l", "l", "_", "t", "a", "b", "s", "_", "2">>
medium_tabs == <<"m", "e", "d", "i", "u", "m", "_", "t", "a", "b", "s">>

add_main == <<"a", "d", "d", "_", "m", "a", "i", "n">>
add_small_1 == <<"a", "d", "d", "_", "s", "m", "a", "l", "l", "_", "1">>
add_small_2 == <<"a", "d", "d", "_", "s", "m", "a", "l", "l", "_", "2">>
add_medium == <<"a", "d", "d", "_", "m", "e", "d", "i", "u", "m">>

command_input == <<"c", "o", "m", "m", "a", "n", "d", "_", "i", "n", "p", "u", "t">>

\* -------------------------------------------------------------- add_tab_map
\* The keys of add_tab_map (and of tab_counters) in insertion order, which is
\* the order a Python dict iterates in.
RegionOrder == <<main_tabs, small_tabs_1, small_tabs_2, medium_tabs>>

Regions == {RegionOrder[i] : i \in 1..Len(RegionOrder)}

add_tab_map ==
    [r \in Regions |->
        CASE r = main_tabs -> add_main
          [] r = small_tabs_1 -> add_small_1
          [] r = small_tabs_2 -> add_small_2
          [] r = medium_tabs -> add_medium]

\* The "[+]" pane compose() puts in region r, holding the "Add Tab" button.
PlusPane(r) ==
    [id |-> add_tab_map[r],
     label |-> "[+]",
     children |-> <<[class |-> "Button", id |-> S_add_ \o r]>>]

\* ------------------------------------------------------------------ state
VARIABLES
    tab_counters,     \* self.tab_counters: region key -> ordinal of the last tab made
    panes,            \* per region, the TabPanes of its TabbedContent in DOM order
    selector,         \* the region key the open WidgetSelector's callback captured, or NoSelector
    command_history,  \* self.command_history
    history_index,    \* self.history_index
    input_value,      \* the value of the #command_input Input
    has_focus,        \* whether #command_input has input focus
    parsed,           \* the commands handed to self.process.parse_command, in order
    issued,           \* per region, the (ordinal, tab id) pairs add_tab has given out, in order
    update_log,       \* the update_content() calls the last handler made, in order
    stopped,          \* whether the last on_key call ran event.stop()
    up_run,           \* k when the last k handlers were focused "up" presses, the first of
                      \* them with the index at len(command_history); else 0
    error,            \* the exception the last handler raised, or NoError
    last_call,        \* the last handler that ran, with its arguments
    mounted,          \* whether the MainView is in the DOM (not torn down)
    timer_running,    \* whether the interval on_mount set is still firing
    responses,        \* the CoreMiner process: responses made available and taken so far
    broadcasts        \* how many times the last handler ran update_all_widgets

vars == <<tab_counters, panes, selector, command_history, history_index, input_value,
          has_focus, parsed, issued, update_log, stopped, up_run, error, last_call,
          mounted, timer_running, responses, broadcasts>>

tabVars == <<tab_counters, panes, issued>>
historyVars == <<command_history, history_index, input_value, parsed>>
envVars == <<mounted, timer_running, responses>>

NoSelector == <<"<", "n", "o", "n", "e", ">">>
NoError == "none"

Call(op, args) == [op |-> op, args |-> args]

\* self.app.set_interval instead of self.set_interval: the timer is the App's.
TimerOwner_app == "App"

\* on_mount: self.set_interval(0.1, self.check_coreminer_output), so the timer
\* belongs to the MainView's message pump.
TimerOwner == "MainView"

\* The state once the view is composed and on_mount has run.
Init ==
    /\ tab_counters = [r \in Regions |-> 0]
    /\ panes = [r \in Regions |-> <<PlusPane(r)>>]
    /\ selector = NoSelector
    /\ command_history = << >>
    /\ history_index = 0
    /\ input_value = << >>
    /\ has_focus = FALSE
    /\ parsed = << >>
    /\ issued = [r \in Regions |-> << >>]
    /\ update_log = << >>
    /\ stopped = FALSE
    /\ up_run = 0
    /\ error = NoError
    /\ last_call = Call("__init__", << >>)
    /\ mounted = TRUE
    /\ timer_running = TRUE
    /\ responses = [made |-> 0, taken |-> 0]
    /\ broadcasts = 0

\* --------------------------------------------------------- widget factory
DataStoreWidgets == {"RawResponses", "Registers", "Stack", "Output", "Disassembly", "Backtrace"}

\* _create_widget without the Backtrace branch.
_create_widget_no_backtrace(widget_name) ==
    IF widget_name \in DataStoreWidgets \ {"Backtrace"}
    THEN [class |-> widget_name, data_store |-> "self.data_store"]
    ELSE [class |-> "Static", content |-> <<"Unknown widget: ", widget_name>>]

\* Static(f"Unknown widget: {widget_name}") for every other name
_create_widget(widget_name) ==
    IF widget_name \in DataStoreWidgets
    THEN [class |-> widget_name, data_store |-> "self.data_store"]
    ELSE [class |-> "Static", content |-> <<"Unknown widget: ", widget_name>>]

\* update_all_widgets calling update_content() on every child unasked.
HasUpdateContent_unasked(child) == TRUE

\* hasattr(child, "update_content") and callable(child.update_content): of the
\* widget classes whose source is at hand, Output defines update_content.
HasUpdateContent(child) == child.class = "Output"

\* ------------------------------------------------------------------- tabs
PaneIds(seq) == {seq[i].id : i \in 1..Len(seq)}

IndexOfPane(seq, pane_id) ==
    CHOOSE i \in 1..Len(seq) : seq[i].id = pane_id /\ \A j \in 1..(i - 1) : seq[j].id # pane_id

\* add_pane putting the pane before every other pane of the region.
add_pane_at_front(seq, pane, before_id) == <<pane>> \o seq

\* add_pane without before=: the pane goes to the end of the region.
add_pane_at_end(seq, pane, before_id) == Append(seq, pane)

\* TabbedContent.add_pane(pane, before=before_id): the pane goes right before
\* the pane whose id is before_id.
add_pane(seq, pane, before_id) ==
    LET i == IndexOfPane(seq, before_id)
    IN SubSeq(seq, 1, i - 1) \o <<pane>> \o SubSeq(seq, i, Len(seq))

\* TabbedContent.remove_pane(pane_id): the pane with that id leaves the
\* region; an id no pane has removes nothing.
remove_pane(seq, pane_id) == SelectSeq(seq, LAMBDA p : p.id # pane_id)

\* f"{tabbed_content_id}_tab_{counter_value}"
NewTabId(tabbed_content_id, counter_value) ==
    tabbed_content_id \o S_tab_ \o IntToStr(counter_value)

\* f"delete_{tabbed_content_id}_{new_tab_id}"
DeleteButtonId(tabbed_content_id, tab_id) ==
    S_delete_ \o tabbed_content_id \o S_us \o tab_id

\* TabPane(new_tab_name, ScrollableContainer(VerticalScroll(widget), Button("Close Tab")), id=new_tab_id):
\* children are the pane's descendants in DOM (depth-first) order.
NewPane(tabbed_content_id, new_tab_id, widget_name) ==
    [id |-> new_tab_id,
     label |-> widget_name,
     children |-> <<[class |-> "ScrollableContainer"],
                    [class |-> "VerticalScroll"],
                    _create_widget(widget_name),
                    [class |-> "Button", id |-> DeleteButtonId(tabbed_content_id, new_tab_id)]>>]

\* The counter add_tab leaves in the region.
NextCounter(counter) == counter + 1

\* add_tab putting the tab into main_tabs when the region key is unknown.
add_tab_falling_back(tabbed_content_id, widget_name) ==
    LET region == IF tabbed_content_id \in DOMAIN add_tab_map
                  THEN tabbed_content_id ELSE main_tabs
        counter_value == NextCounter(tab_counters[region])
        new_tab_id == NewTabId(region, counter_value)
    IN /\ tab_counters' = [tab_counters EXCEPT ![region] = counter_value]
       /\ issued' = [issued EXCEPT ![region] =
                         Append(@, [ordinal |-> counter_value, id |-> new_tab_id])]
       /\ panes' = [panes EXCEPT ![region] =
                        add_pane(@, NewPane(region, new_tab_id, widget_name),
                                 add_tab_map[region])]
       /\ error' = NoError

\* add_tab counting the tabs of all regions with one counter.
add_tab_shared_counter(tabbed_content_id, widget_name) ==
    IF tabbed_content_id \notin DOMAIN add_tab_map
    THEN /\ UNCHANGED <<tab_counters, panes, issued>>
         /\ error' = NoError
    ELSE LET counter_value == NextCounter(tab_counters[tabbed_content_id])
             new_tab_id == NewTabId(tabbed_content_id, counter_value)
             add_tab_id == add_tab_map[tabbed_content_id]
         IN /\ tab_counters' = [r \in DOMAIN tab_counters |-> counter_value]
            /\ issued' = [issued EXCEPT ![tabbed_content_id] =
                              Append(@, [ordinal |-> counter_value, id |-> new_tab_id])]
            /\ panes' = [panes EXCEPT ![tabbed_content_id] =
                             add_pane(@, NewPane(tabbed_content_id, new_tab_id, widget_name),
                                      add_tab_id)]
            /\ error' = NoError

\* MainView.add_tab
add_tab(tabbed_content_id, widget_name) ==
    IF tabbed_content_id \notin DOMAIN add_tab_map
    THEN /\ UNCHANGED <<tab_counters, panes, issued>>
         /\ error' = NoError
    ELSE LET counter_value == NextCounter(tab_counters[tabbed_content_id])
             new_tab_id == NewTabId(tabbed_content_id, counter_value)
             add_tab_id == add_tab_map[tabbed_content_id]
         IN /\ tab_counters' = [tab_counters EXCEPT ![tabbed_content_id] = counter_value]
            /\ issued' = [issued EXCEPT ![tabbed_content_id] =
                              Append(@, [ordinal |-> counter_value, id |-> new_tab_id])]
            /\ IF add_tab_id \in PaneIds(panes[tabbed_content_id])
               THEN /\ panes' = [panes EXCEPT ![tabbed_content_id] =
                                    add_pane(@, NewPane(tabbed_content_id, new_tab_id, widget_name),
                                             add_tab_id)]
                    /\ error' = NoError
               ELSE /\ UNCHANGED panes
                    /\ error' = "NoMatches"

RECURSIVE MatchRegion(_, _)
\* The loop of delete_tab over add_tab_map: the first key, in dict order from
\* position i, whose prefix key + "_" starts remainder; 0 when there is none.
MatchRegion(remainder, i) ==
    IF i > Len(RegionOrder) THEN 0
    ELSE IF StartsWith(remainder, RegionOrder[i] \o S_us) THEN i
    ELSE MatchRegion(remainder, i + 1)

\* ParseDeleteId looking for a region prefix anywhere in the id instead of
\* at its start.
ParseDeleteId_searching(delete_button_id) ==
    LET RECURSIVE SkipToRegion(_)
        SkipToRegion(s) ==
            IF s = << >> \/ MatchRegion(s, 1) # 0 THEN s ELSE SkipToRegion(Tail(s))
        remainder == SkipToRegion(RemovePrefix(delete_button_id, S_delete_))
        i == MatchRegion(remainder, 1)
    IN IF i = 0
       THEN [tabbed_content_id |-> << >>, tab_id |-> << >>]
       ELSE [tabbed_content_id |-> RegionOrder[i],
             tab_id |-> DropFirst(remainder, Len(RegionOrder[i] \o S_us))]

\* ParseDeleteId slicing at len(candidate_id), one short of the prefix.
ParseDeleteId_short_slice(delete_button_id) ==
    LET remainder == RemovePrefix(delete_button_id, S_delete_)
        i == MatchRegion(remainder, 1)
    IN IF i = 0
       THEN [tabbed_content_id |-> << >>, tab_id |-> << >>]
       ELSE [tabbed_content_id |-> RegionOrder[i],
             tab_id |-> DropFirst(remainder, Len(RegionOrder[i]))]

\* The (tabbed_content_id, tab_id) delete_tab parses out of a button id;
\* << >> stands for None.
ParseDeleteId(delete_button_id) ==
    LET remainder == RemovePrefix(delete_button_id, S_delete_)
        i == MatchRegion(remainder, 1)
    IN IF i = 0
       THEN [tabbed_content_id |-> << >>, tab_id |-> << >>]
       ELSE [tabbed_content_id |-> RegionOrder[i],
             tab_id |-> DropFirst(remainder, Len(RegionOrder[i] \o S_us))]

\* delete_tab without its guard for the "[+]" tab.
IsPlusTab_unguarded(tabbed_content_id, tab_id) == FALSE

\* "Make sure we don't remove the "[+]" tab"
IsPlusTab(tabbed_content_id, tab_id) == tab_id = add_tab_map[tabbed_content_id]

\* delete_tab giving the closed tab's ordinal back to the region's counter.
delete_tab_reusing_ordinal(delete_button_id) ==
    LET t == ParseDeleteId(delete_button_id)
    IN IF t.tabbed_content_id = << >> \/ t.tab_id = << >>
       THEN /\ UNCHANGED <<tab_counters, panes, issued>>
            /\ error' = NoError
       ELSE IF IsPlusTab(t.tabbed_content_id, t.tab_id)
       THEN /\ UNCHANGED <<tab_counters, panes, issued>>
            /\ error' = NoError
       ELSE /\ panes' = [panes EXCEPT ![t.tabbed_content_id] = remove_pane(@, t.tab_id)]
            /\ tab_counters' = [tab_counters EXCEPT ![t.tabbed_content_id] =
                                    IF t.tab_id \in PaneIds(panes[t.tabbed_content_id])
                                    THEN @ - 1 ELSE @]
            /\ UNCHANGED issued
            /\ error' = NoError

\* MainView.delete_tab
delete_tab(delete_button_id) ==
    LET t == ParseDeleteId(delete_button_id)
    IN IF t.tabbed_content_id = << >> \/ t.tab_id = << >>
       THEN /\ UNCHANGED <<tab_counters, panes, issued>>
            /\ error' = NoError
       ELSE IF IsPlusTab(t.tabbed_content_id, t.tab_id)
       THEN /\ UNCHANGED <<tab_counters, panes, issued>>
            /\ error' = NoError
       ELSE /\ panes' = [panes EXCEPT ![t.tabbed_content_id] = remove_pane(@, t.tab_id)]
            /\ UNCHANGED <<tab_counters, issued>>
            /\ error' = NoError

\* -------------------------------------------------------------- broadcast
\* Whether a widget class defines update_content (Output.update_content).
DefinesUpdateContent(class) == class = "Output"

RECURSIVE UpdateChildren(_, _, _)
\* "for child in pane.query()": the update_content() calls for the children of
\* pane from position k on.
UpdateChildren(r, pane, k) ==
    IF k > Len(pane.children) THEN << >>
    ELSE (IF HasUpdateContent(pane.children[k])
          THEN <<[region |-> r, pane |-> pane.id, child |-> k,
                  class |-> pane.children[k].class]>>
          ELSE << >>)
         \o UpdateChildren(r, pane, k + 1)

RECURSIVE UpdatePanes(_, _, _)
\* "for pane in panes": the panes of region r from position i on, skipping the
\* pane whose id is plus_tab_id.
UpdatePanes(r, plus_tab_id, i) ==
    IF i > Len(panes[r]) THEN << >>
    ELSE (IF panes[r][i].id = plus_tab_id THEN << >>
          ELSE UpdateChildren(r, panes[r][i], 1))
         \o UpdatePanes(r, plus_tab_id, i + 1)

RECURSIVE UpdateRegions_last_first(_)
\* UpdateRegions going through the regions from the last key to the first.
UpdateRegions_last_first(j) ==
    IF j > Len(RegionOrder) THEN << >>
    ELSE UpdateRegions_last_first(j + 1)
         \o UpdatePanes(RegionOrder[j], add_tab_map[RegionOrder[j]], 1)

RECURSIVE UpdateRegions(_)
\* "for tabbed_content_id, plus_tab_id in self.add_tab_map.items()"
UpdateRegions(j) ==
    IF j > Len(RegionOrder) THEN << >>
    ELSE UpdatePanes(RegionOrder[j], add_tab_map[RegionOrder[j]], 1) \o UpdateRegions(j + 1)

\* The first call in calls that lands on a widget without update_content
\* (an AttributeError, which ends the handler), or 0.
FirstFailure(calls) ==
    IF \E i \in 1..Len(calls) : ~DefinesUpdateContent(calls[i].class)
    THEN CHOOSE i \in 1..Len(calls) :
             /\ ~DefinesUpdateContent(calls[i].class)
             /\ \A j \in 1..(i - 1) : DefinesUpdateContent(calls[j].class)
    ELSE 0

\* MainView.update_all_widgets
update_all_widgets ==
    LET calls == UpdateRegions(1)
        f == FirstFailure(calls)
    IN IF f = 0
       THEN /\ update_log' = calls
            /\ broadcasts' = 1
            /\ error' = NoError
       ELSE /\ update_log' = SubSeq(calls, 1, f)
            /\ broadcasts' = 1
            /\ error' = "AttributeError"

\* ----------------------------------------------------------------- inputs
\* What the WidgetSelector hands to its callback: a widget name, or None.
None == "<None>"
WidgetChoices == {"Output", "Frobnicate"}

S_bogus == <<"b", "o", "g", "u", "s">>
\* Region keys add_tab is called with: the four of add_tab_map and one that
\* is not a key.
RegionArgs == Regions \cup {S_bogus}

SumCounters == 
    tab_counters[main_tabs] + tab_counters[small_tabs_1]
    + tab_counters[small_tabs_2] + tab_counters[medium_tabs]

\* The ids of the Buttons in the DOM: each region's "Add Tab" button and the
\* "Close Tab" button of every tab.
ButtonsOfPane(pane) ==
    {pane.children[k].id :
        k \in {n \in 1..Len(pane.children) : pane.children[n].class = "Button"}}

ButtonsOf(seq) == UNION {ButtonsOfPane(seq[i]) : i \in 1..Len(seq)}

MountedButtonIds == UNION {ButtonsOf(panes[r]) : r \in Regions}

\* Button ids delete_tab is called with: the close control of each region's
\* first tab (mounted, closed or never made), each region's "[+]" tab, a tab
\* id of another region, an empty tab id, an unknown region, the close control
\* of a tab behind an unknown region, and an id without the delete_ prefix.
CloseControlIds ==
    {DeleteButtonId(r, NewTabId(r, 1)) : r \in Regions}
    \cup {DeleteButtonId(r, add_tab_map[r]) : r \in Regions}
    \cup {DeleteButtonId(main_tabs, add_tab_map[small_tabs_1]),
          DeleteButtonId(small_tabs_2, NewTabId(small_tabs_1, 1)),
          S_delete_ \o main_tabs \o S_us,
          DeleteButtonId(S_bogus, NewTabId(S_bogus, 1)),
          S_delete_ \o S_bogus \o S_us \o main_tabs \o S_us \o NewTabId(main_tabs, 1),
          main_tabs \o S_us \o NewTabId(main_tabs, 1)}

\* What the user types into the command input.
TypedValues == {<< >>, <<" ">>, <<"a">>, <<" ", "b", " ">>}

S_other_input == <<"o", "t", "h", "e", "r">>
InputIds == {command_input, S_other_input}
\* What an Input other than the command input holds when it is submitted.
OtherInputValue == <<"a">>

Keys == {"up", "down", "x"}

\* --------------------------------------------------------------- handlers
\* check_coreminer_output without the "if response" test.
check_coreminer_output_unconditional(response) ==
    /\ update_all_widgets
    /\ stopped' = FALSE
    /\ up_run' = 0
    /\ last_call' = Call("check_coreminer_output", <<response>>)
    /\ UNCHANGED <<tabVars, selector, historyVars, has_focus>>

\* MainView.check_coreminer_output, the interval's callback; response is what
\* self.process.get_response() returns (truthy or not).
check_coreminer_output(response) ==
    /\ IF response
       THEN update_all_widgets
       ELSE /\ update_log' = << >>
            /\ broadcasts' = 0
            /\ error' = NoError
    /\ stopped' = FALSE
    /\ up_run' = 0
    /\ last_call' = Call("check_coreminer_output", <<response>>)
    /\ UNCHANGED <<tabVars, selector, historyVars, has_focus>>

\* MainView.on_button_pressed, branch button_id.startswith("add_"): the
\* WidgetSelector is pushed with a callback that captured tabbed_content_id.
on_button_pressed_add(button_id) ==
    /\ StartsWith(button_id, S_add_)
    /\ selector' = ReplaceAll(button_id, S_add_, << >>)
    /\ error' = NoError
    /\ update_log' = << >>
    /\ broadcasts' = 0
    /\ stopped' = FALSE
    /\ up_run' = 0
    /\ last_call' = Call("on_button_pressed", <<button_id>>)
    /\ UNCHANGED <<tabVars, historyVars, has_focus>>

\* MainView.on_button_pressed, branch button_id.startswith("delete_")
on_button_pressed_delete(button_id) ==
    /\ ~StartsWith(button_id, S_add_)
    /\ StartsWith(button_id, S_delete_)
    /\ delete_tab(button_id)
    /\ update_log' = << >>
    /\ broadcasts' = 0
    /\ stopped' = FALSE
    /\ up_run' = 0
    /\ last_call' = Call("on_button_pressed", <<button_id>>)
    /\ UNCHANGED <<selector, historyVars, has_focus>>

\* A press of a Button of the MainView, which the open WidgetSelector covers.
OnButtonPressed(max_tabs) ==
    /\ mounted
    /\ UNCHANGED envVars
    /\ selector = NoSelector
    /\ \E button_id \in MountedButtonIds :
           \/ SumCounters < max_tabs /\ on_button_pressed_add(button_id)
           \/ on_button_pressed_delete(button_id)

\* _on_widget_choice without the "is not None" test.
_on_widget_choice_unchecked(choice, tabbed_content_id) ==
    /\ add_tab(tabbed_content_id, choice)
    /\ selector' = NoSelector
    /\ update_log' = << >>
    /\ broadcasts' = 0
    /\ stopped' = FALSE
    /\ up_run' = 0
    /\ last_call' = Call("_on_widget_choice",
                         <<choice, tabbed_content_id, last_call.op # "on_button_pressed">>)
    /\ UNCHANGED <<historyVars, has_focus>>

\* MainView._on_widget_choice, the callback of the WidgetSelector; the call
\* record also tells whether another handler ran since the button press.
_on_widget_choice(choice, tabbed_content_id) ==
    /\ IF choice # None
       THEN add_tab(tabbed_content_id, choice)
       ELSE /\ UNCHANGED tabVars
            /\ error' = NoError
    /\ selector' = NoSelector
    /\ update_log' = << >>
    /\ broadcasts' = 0
    /\ stopped' = FALSE
    /\ up_run' = 0
    /\ last_call' = Call("_on_widget_choice",
                         <<choice, tabbed_content_id, last_call.op # "on_button_pressed">>)
    /\ UNCHANGED <<historyVars, has_focus>>

OnWidgetChoice ==
    /\ mounted
    /\ UNCHANGED envVars
    /\ selector # NoSelector
    /\ \E choice \in WidgetChoices \cup {None} : _on_widget_choice(choice, selector)

\* A call of add_tab with any region key.
AddTabCall(max_tabs) ==
    /\ mounted
    /\ UNCHANGED envVars
    /\ SumCounters < max_tabs
    /\ \E tabbed_content_id \in RegionArgs, widget_name \in WidgetChoices :
           /\ add_tab(tabbed_content_id, widget_name)
           /\ update_log' = << >>
           /\ broadcasts' = 0
           /\ stopped' = FALSE
           /\ up_run' = 0
           /\ last_call' = Call("add_tab", <<tabbed_content_id, widget_name>>)
           /\ UNCHANGED <<selector, historyVars, has_focus>>

\* Widget names add_tab is called with: the six _create_widget knows and one
\* it does not.
WidgetNames ==
    {"RawResponses", "Registers", "Stack", "Output", "Disassembly", "Backtrace", "Frobnicate"}

\* A call of add_tab with any region key and any widget name.
AddTabAnyWidget(max_tabs) ==
    /\ mounted
    /\ UNCHANGED envVars
    /\ SumCounters < max_tabs
    /\ \E tabbed_content_id \in RegionArgs, widget_name \in WidgetNames :
           /\ add_tab(tabbed_content_id, widget_name)
           /\ update_log' = << >>
           /\ broadcasts' = 0
           /\ stopped' = FALSE
           /\ up_run' = 0
           /\ last_call' = Call("add_tab", <<tabbed_content_id, widget_name>>)
           /\ UNCHANGED <<selector, historyVars, has_focus>>

\* A call of delete_tab with any button id.
DeleteTabCall ==
    /\ mounted
    /\ UNCHANGED envVars
    /\ \E delete_button_id \in CloseControlIds :
        /\ delete_tab(delete_button_id)
        /\ update_log' = << >>
        /\ broadcasts' = 0
        /\ stopped' = FALSE
        /\ up_run' = 0
        /\ last_call' = Call("delete_tab", <<delete_button_id>>)
        /\ UNCHANGED <<selector, historyVars, has_focus>>

\* The interval fires; what the process has for it is left open: any tick may
\* or may not find a response.
PollTick ==
    /\ timer_running
    /\ UNCHANGED envVars
    /\ \E response \in BOOLEAN : check_coreminer_output(response)

\* ------------------------------------------------------ process and teardown
\* The CoreMiner process makes one more response available.
ResponseArrives ==
    /\ responses.made < MaxResponses
    /\ responses' = [responses EXCEPT !.made = @ + 1]
    /\ UNCHANGED <<tabVars, selector, historyVars, has_focus, update_log, stopped, up_run,
                   error, last_call, mounted, timer_running, broadcasts>>

\* self.process.get_response(), non-blocking: whether a response is there to take.
ResponseAvailable == responses.taken < responses.made

\* The interval fires and check_coreminer_output takes what get_response()
\* returns: the oldest response not taken yet, or none.
PollTickQueue ==
    /\ timer_running
    /\ check_coreminer_output(ResponseAvailable)
    /\ responses' = IF ResponseAvailable
                    THEN [responses EXCEPT !.taken = @ + 1]
                    ELSE responses
    /\ UNCHANGED <<mounted, timer_running>>

\* The MainView is removed: its message pump closes and stops the timers that
\* belong to it; no event reaches the view afterwards.
Teardown ==
    /\ mounted
    /\ mounted' = FALSE
    /\ timer_running' = IF TimerOwner = "MainView" THEN FALSE ELSE timer_running
    /\ last_call' = Call("teardown", << >>)
    /\ error' = NoError
    /\ update_log' = << >>
    /\ broadcasts' = 0
    /\ stopped' = FALSE
    /\ up_run' = 0
    /\ UNCHANGED <<tabVars, selector, historyVars, has_focus, responses>>

\* ---------------------------------------------------------------- history
\* UpIndex without the "> 0" test.
UpIndex_unchecked(index) == index - 1

\* UpIndex stopping one entry short of the oldest command.
UpIndex_stops_at_one(index) == IF index > 1 THEN index - 1 ELSE index

\* The index on_key leaves after "up".
UpIndex(index) == IF index > 0 THEN index - 1 ELSE index

\* The index on_key leaves after "down".
DownIndex(index, history) == IF index < Len(history) THEN index + 1 ELSE index

\* MainView.on_key, key "up" with the command input focused; Python's
\* command_history[i] is command_history[i + 1] here.
on_key_up ==
    LET i == UpIndex(history_index)
    IN /\ stopped' = TRUE
       /\ up_run' = IF up_run > 0
                    THEN (IF up_run < MaxUps THEN up_run + 1 ELSE 0)
                    ELSE (IF history_index = Len(command_history) THEN 1 ELSE 0)
       /\ history_index' = i
       /\ IF 0 <= i /\ i < Len(command_history)
          THEN input_value' = command_history[i + 1]
          ELSE UNCHANGED input_value
       /\ error' = NoError

\* MainView.on_key, key "down" with the command input focused
on_key_down ==
    LET i == DownIndex(history_index, command_history)
    IN /\ stopped' = TRUE
       /\ up_run' = 0
       /\ history_index' = i
       /\ IF i = Len(command_history)
          THEN /\ input_value' = << >>
               /\ error' = NoError
          ELSE IF 0 <= i /\ i < Len(command_history)
          THEN /\ input_value' = command_history[i + 1]
               /\ error' = NoError
          ELSE /\ UNCHANGED input_value
               /\ error' = "IndexError"

\* on_key without the has_focus test.
on_key_any_focus(key) ==
    /\ IF key = "up" THEN on_key_up
       ELSE IF key = "down" THEN on_key_down
       ELSE /\ UNCHANGED <<history_index, input_value>>
            /\ stopped' = FALSE
            /\ up_run' = 0
            /\ error' = NoError
    /\ update_log' = << >>
    /\ broadcasts' = 0
    /\ last_call' = Call("on_key", <<key>>)
    /\ UNCHANGED <<tabVars, selector, command_history, parsed, has_focus>>

\* MainView.on_key
on_key(key) ==
    /\ IF ~has_focus
       THEN /\ UNCHANGED <<history_index, input_value>>
            /\ stopped' = FALSE
            /\ up_run' = 0
            /\ error' = NoError
       ELSE IF key = "up" THEN on_key_up
       ELSE IF key = "down" THEN on_key_down
       ELSE /\ UNCHANGED <<history_index, input_value>>
            /\ stopped' = FALSE
            /\ up_run' = 0
            /\ error' = NoError
    /\ update_log' = << >>
    /\ broadcasts' = 0
    /\ last_call' = Call("on_key", <<key>>)
    /\ UNCHANGED <<tabVars, selector, command_history, parsed, has_focus>>

OnKey ==
    /\ mounted
    /\ UNCHANGED envVars
    /\ \E key \in Keys : on_key(key)

\* process_command given the untrimmed value of the input.
process_command_untrimmed(command) ==
    /\ command_history' = Append(command_history, input_value)
    /\ parsed' = Append(parsed, input_value)

\* process_command that stores the command and does not send it.
process_command_unsent(command) ==
    /\ command_history' = Append(command_history, command)
    /\ UNCHANGED parsed

\* MainView.process_command: the history and the commands sent to CoreMiner after it
process_command(command) ==
    /\ command_history' = Append(command_history, command)
    /\ parsed' = Append(parsed, command)

\* SubmittedIndex pointing at the last command instead of past it.
SubmittedIndex_at_last(history) == IF Len(history) > 0 THEN Len(history) - 1 ELSE 0

\* The index on_input_submitted leaves: len(self.command_history)
SubmittedIndex(history) == Len(history)

\* MainView.on_input_submitted for the Input input_id submitting value
on_input_submitted(input_id, value) ==
    /\ IF input_id = command_input
       THEN LET command == Strip(value)
            IN /\ IF command # << >>
                  THEN process_command(command)
                  ELSE UNCHANGED <<command_history, parsed>>
               /\ input_value' = << >>
               /\ history_index' = SubmittedIndex(command_history')
       ELSE UNCHANGED historyVars
    /\ error' = NoError
    /\ update_log' = << >>
    /\ broadcasts' = 0
    /\ stopped' = FALSE
    /\ up_run' = 0
    /\ last_call' = Call("on_input_submitted", <<input_id, value>>)
    /\ UNCHANGED <<tabVars, selector, has_focus>>

\* Enter in the command input submits its value; Enter in another Input
\* submits whatever that one holds.
OnInputSubmitted(max_history) ==
    /\ mounted
    /\ UNCHANGED envVars
    /\ \E input_id \in InputIds, value \in TypedValues :
        /\ value = IF input_id = command_input THEN input_value ELSE OtherInputValue
        /\ Len(command_history) < max_history \/ Strip(value) = << >> \/ input_id # command_input
        /\ on_input_submitted(input_id, value)

\* The user edits the focused command input: the Input takes the new value,
\* and MainView has no handler for the change.
EditInput ==
    /\ mounted
    /\ UNCHANGED envVars
    /\ has_focus
    /\ \E value \in TypedValues :
           /\ value # input_value
           /\ input_value' = value
           /\ last_call' = Call("edit", <<value>>)
    /\ error' = NoError
    /\ update_log' = << >>
    /\ broadcasts' = 0
    /\ stopped' = FALSE
    /\ up_run' = 0
    /\ UNCHANGED <<tabVars, selector, command_history, history_index, parsed, has_focus>>

\* Focus moves to or away from the command input.
ToggleFocus ==
    /\ mounted
    /\ UNCHANGED envVars
    /\ has_focus' = ~has_focus
    /\ last_call' = Call("focus", <<has_focus'>>)
    /\ error' = NoError
    /\ update_log' = << >>
    /\ broadcasts' = 0
    /\ stopped' = FALSE
    /\ up_run' = 0
    /\ UNCHANGED <<tabVars, selector, historyVars>>

\* --------------------------------------------------------- specifications
NextTabs ==
    \/ OnButtonPressed(MaxTabs)
    \/ OnWidgetChoice
    \/ AddTabCall(MaxTabs)
    \/ DeleteTabCall
    \/ PollTick

NextHistory ==
    \/ OnKey
    \/ OnInputSubmitted(MaxHistory)
    \/ EditInput
    \/ ToggleFocus

\* The events of the running application: button presses, the selector's
\* callback, the interval and the command input.
Next ==
    \/ OnButtonPressed(MaxTabsAll)
    \/ OnWidgetChoice
    \/ PollTick
    \/ OnKey
    \/ OnInputSubmitted(MaxHistoryAll)
    \/ EditInput
    \/ ToggleFocus

\* The interval, the process and the view's teardown, with tabs to update.
NextPolling ==
    \/ OnButtonPressed(MaxTabsAll)
    \/ OnWidgetChoice
    \/ ResponseArrives
    \/ PollTickQueue
    \/ Teardown

\* The tab regions and the broadcast alone.
SpecTabs == Init /\ [][NextTabs]_vars

\* Tabs of every widget name: add_tab and delete_tab only, since of the widget
\* classes only Output's source tells whether it takes a broadcast.
NextFactory ==
    \/ AddTabAnyWidget(MaxTabsAll)
    \/ DeleteTabCall

SpecFactory == Init /\ [][NextFactory]_vars

\* The command input alone.
SpecHistory == Init /\ [][NextHistory]_vars

Spec == Init /\ [][Next]_vars

SpecPolling == Init /\ [][NextPolling]_vars

\* set_interval keeps firing the callback for as long as the timer runs.
SpecPollingFair == SpecPolling /\ WF_vars(PollTickQueue)

\* ============================================================ properties
\* What the last handler was.
LastAddTab(r) ==
    \/ /\ last_call.op = "add_tab"
       /\ last_call.args[1] = r
    \/ /\ last_call.op = "_on_widget_choice"
       /\ last_call.args[1] # None
       /\ last_call.args[2] = r

LastDeleteTab(delete_button_id) ==
    /\ last_call.op \in {"delete_tab", "on_button_pressed"}
    /\ last_call.args = <<delete_button_id>>

\* The region's tabs other than its "[+]" tab, in order.
TabsOf(r) == SelectSeq(panes[r], LAMBDA p : p.id # add_tab_map[r])

\* The "Close Tab" button id a mounted tab carries.
CloseControlOf(pane) == pane.children[Len(pane.children)].id

\* C1: in every reachable state each of the four regions holds its "[+]" tab
\* exactly once and as the last pane, and right after an add_tab for region r
\* the tab it made is the pane immediately before the "[+]" tab.
C1_SentinelLast ==
    \A r \in Regions :
        LET n == Len(panes[r])
        IN /\ n >= 1
           /\ panes[r][n] = PlusPane(r)
           /\ \A i \in 1..(n - 1) : panes[r][i].id # add_tab_map[r]
           /\ LastAddTab(r) =>
                  /\ n >= 2
                  /\ panes[r][n - 1].id = issued[r][Len(issued[r])].id

\* C1 witness: an add_tab has just put a second tab into a region.
C1_Witness ==
    \E r \in Regions : LastAddTab(r) /\ Len(panes[r]) = 3

\* C2: within each region the ordinals add_tab gave out are 1, 2, 3, ... in
\* the order given, no tab id was given twice, the counter equals the number
\* of tabs made, and no step lowers a counter.
C2_OrdinalsInv ==
    \A r \in Regions :
        /\ \A i \in 1..Len(issued[r]) : issued[r][i].ordinal = i
        /\ \A i, j \in 1..Len(issued[r]) : i < j =>
               /\ issued[r][i].ordinal < issued[r][j].ordinal
               /\ issued[r][i].id # issued[r][j].id
        /\ \A i \in 1..Len(TabsOf(r)) :
               \E j \in 1..Len(issued[r]) : issued[r][j].id = TabsOf(r)[i].id

C2_OrdinalsNeverReused ==
    /\ []C2_OrdinalsInv
    /\ [][\A r \in Regions : tab_counters'[r] >= tab_counters[r]]_vars

\* C2 witness: a region's first tab was closed and a second add_tab then
\* made tab 2.
C2_Witness ==
    \E r \in Regions :
        /\ LastAddTab(r)
        /\ Len(issued[r]) = 2
        /\ Len(panes[r]) = 2
        /\ panes[r][1].id = NewTabId(r, 2)

\* C3: delete_tab with the button id delete_{region}_{id of the region's "[+]"
\* tab} changes no region's panes, no counter and not the command history.
C3_DeleteSentinelNoOp ==
    [][\A r \in Regions :
          LastDeleteTab(DeleteButtonId(r, add_tab_map[r]))' =>
              UNCHANGED <<panes, tab_counters, command_history>>]_vars

\* C3 witness: delete_tab was just called on the "[+]" tab of a region that
\* has a tab.
C3_Witness ==
    \E r \in Regions :
        /\ LastDeleteTab(DeleteButtonId(r, add_tab_map[r]))
        /\ Len(panes[r]) >= 2

LastCommandSubmit ==
    /\ last_call.op = "on_input_submitted"
    /\ last_call.args[1] = command_input

LastEdit == last_call.op = "edit"

\* The last handler was on_key for that key with the command input focused.
LastFocusedKey(key) ==
    /\ last_call = Call("on_key", <<key>>)
    /\ stopped

Max(a, b) == IF a >= b THEN a ELSE b

\* C5 as stated: right after a submission of the command input and right
\* after an edit of it, the history cursor equals len(history).
C5_CursorResetOnSubmitOrEdit ==
    (LastCommandSubmit \/ LastEdit) => history_index = Len(command_history)

\* C5 as amended: right after a submission of the command input the history
\* cursor equals len(history); an edit of the command input leaves the
\* cursor where it was.
C5_CursorResetInv == LastCommandSubmit => history_index = Len(command_history)

C5_CursorResetOnSubmit ==
    /\ []C5_CursorResetInv
    /\ [][LastEdit' => history_index' = history_index]_vars

\* C5 witness: the second command has just been submitted.
C5_Witness ==
    /\ LastCommandSubmit
    /\ Strip(last_call.args[2]) # << >>
    /\ Len(command_history) = 2

\* C6: the history cursor is always within 0..len(history).
C6_CursorInRange ==
    /\ 0 <= history_index
    /\ history_index <= Len(command_history)

\* C6 witness: Up was pressed at least once more than a 2-entry history has
\* entries, and the cursor stands at 0.
C6_Witness ==
    /\ LastFocusedKey("up")
    /\ up_run = 3
    /\ Len(command_history) = 2
    /\ history_index = 0

\* C7: with the input focused, n >= 1 commands in the history and the cursor
\* at n, k presses of Up leave the cursor at max(n - k, 0) and show
\* history[max(n - k, 0)]; a Down from cursor i < n moves it to i + 1 and
\* shows history[i + 1], or "" when i + 1 = n; after "a", "b", Up, Up, Down
\* the input shows "b".
C7_UpInv ==
    (up_run >= 1 /\ Len(command_history) >= 1) =>
        /\ history_index = Max(Len(command_history) - up_run, 0)
        /\ input_value = command_history[Max(Len(command_history) - up_run, 0) + 1]

C7_DownStep ==
    (LastFocusedKey("down")' /\ history_index < Len(command_history)) =>
        /\ history_index' = history_index + 1
        /\ input_value' = IF history_index + 1 = Len(command_history)
                          THEN << >>
                          ELSE command_history[history_index + 2]
        /\ (up_run = 2 /\ command_history = << <<"a">>, <<"b">> >>) =>
               input_value' = <<"b">>

C7_Navigation ==
    /\ []C7_UpInv
    /\ [][C7_DownStep]_vars

\* C7 witness: "a" and "b" were submitted, and Up was pressed twice and is
\* showing "a".
C7_Witness ==
    /\ command_history = << <<"a">>, <<"b">> >>
    /\ up_run = 2
    /\ input_value = <<"a">>

\* C8: a step changes the command history only when it is a submission of
\* the command input whose trimmed value is non-empty, and such a submission
\* appends exactly the trimmed value (" b " appends "b"); every other step,
\* of any handler, leaves the history as it was.
C8_Step ==
    LET submits == LastCommandSubmit' /\ Strip(last_call'.args[2]) # << >>
    IN /\ submits =>
              /\ command_history' = Append(command_history, Strip(last_call'.args[2]))
              /\ last_call'.args[2] = <<" ", "b", " ">> =>
                     command_history' = Append(command_history, <<"b">>)
       /\ ~submits => command_history' = command_history

LastBroadcast == last_call = Call("check_coreminer_output", <<TRUE>>)

\* How many of the logged update_content() calls went to child k of pane
\* pane_id of region r.
CallsTo(r, pane_id, k) ==
    Cardinality({n \in 1..Len(update_log) :
                    /\ update_log[n].region = r
                    /\ update_log[n].pane = pane_id
                    /\ update_log[n].child = k})

\* C9: a poll tick that got a response calls update_content() exactly once
\* on every child that defines it of every mounted pane other than the "[+]"
\* panes, calls nothing else (no "[+]" pane, no child without update_content,
\* no pane that is not mounted), and raises nothing.
C9_BroadcastExactlyOnce ==
    LastBroadcast =>
        /\ error = NoError
        /\ \A r \in Regions : \A i \in 1..Len(panes[r]) :
               \A k \in 1..Len(panes[r][i].children) :
                   CallsTo(r, panes[r][i].id, k) =
                       IF /\ panes[r][i].id # add_tab_map[r]
                          /\ DefinesUpdateContent(panes[r][i].children[k].class)
                       THEN 1 ELSE 0
        /\ \A n \in 1..Len(update_log) :
               /\ update_log[n].region \in Regions
               /\ update_log[n].pane \in PaneIds(panes[update_log[n].region])
               /\ update_log[n].pane # add_tab_map[update_log[n].region]
               /\ DefinesUpdateContent(update_log[n].class)

\* C9 witness: a broadcast ran in a region whose first tab had been
\* closed and whose second tab, an Output, is the one widget updated.
C9_Witness ==
    /\ LastBroadcast
    /\ Len(update_log) = 1
    /\ \E r \in Regions :
           /\ Len(issued[r]) = 2
           /\ update_log[1].pane = NewTabId(r, 2)
           /\ Len(panes[r]) = 2

\* Where a region comes in the order main_tabs, small_tabs_1, small_tabs_2,
\* medium_tabs.
RegionRank(r) ==
    CASE r = main_tabs -> 1
      [] r = small_tabs_1 -> 2
      [] r = small_tabs_2 -> 3
      [] r = medium_tabs -> 4

\* C10: the update_content() calls of one broadcast come region by region in
\* the order main_tabs, small_tabs_1, small_tabs_2, medium_tabs, within a
\* region pane by pane in the region's pane order, and within a pane child
\* by child.
C10_BroadcastOrder ==
    LastBroadcast =>
        \A m, n \in 1..Len(update_log) : m < n =>
            LET a == update_log[m]
                b == update_log[n]
            IN \/ RegionRank(a.region) < RegionRank(b.region)
               \/ /\ a.region = b.region
                  /\ \/ IndexOfPane(panes[a.region], a.pane) < IndexOfPane(panes[a.region], b.pane)
                     \/ a.pane = b.pane /\ a.child < b.child

\* C10 witness: one broadcast updated a tab of small_tabs_2 and then a tab of
\* medium_tabs.
C10_Witness ==
    /\ LastBroadcast
    /\ Len(update_log) = 2
    /\ update_log[1].region = small_tabs_2
    /\ update_log[2].region = medium_tabs

\* C11: add_tab with a region key that is none of the four raises nothing and
\* leaves every counter, every region's panes, the tabs given out, the open
\* picker's region, the history, the cursor and the input value as they were.
C11_UnknownRegionAborts ==
    [][(last_call'.op = "add_tab" /\ last_call'.args[1] \notin
            {main_tabs, small_tabs_1, small_tabs_2, medium_tabs}) =>
           /\ UNCHANGED <<tab_counters, panes, issued, selector, command_history,
                          history_index, input_value>>
           /\ error' = NoError]_vars

\* C11 witness: add_tab("bogus", "Output") was just called while a tab exists.
C11_Witness ==
    /\ last_call = Call("add_tab", <<S_bogus, "Output">>)
    /\ SumCounters >= 1

\* A button id whose remainder after "delete_" starts with no region key
\* followed by "_", or is a region key followed by "_" and nothing else.
Malformed(delete_button_id) ==
    LET remainder == RemovePrefix(delete_button_id, S_delete_)
    IN \/ \A r \in {main_tabs, small_tabs_1, small_tabs_2, medium_tabs} :
              ~StartsWith(remainder, r \o S_us)
       \/ \E r \in {main_tabs, small_tabs_1, small_tabs_2, medium_tabs} :
              remainder = r \o S_us

\* C12: delete_tab with a malformed button id raises nothing and leaves every
\* region's panes and every counter as they were.
C12_MalformedIdIgnored ==
    [][(last_call'.op = "delete_tab" /\ Malformed(last_call'.args[1])) =>
           /\ UNCHANGED <<panes, tab_counters>>
           /\ error' = NoError]_vars

\* C12 witness: delete_tab was just called with
\* "delete_bogus_main_tabs_main_tabs_tab_1" while main_tabs_tab_1 is mounted.
C12_Witness ==
    /\ last_call = Call("delete_tab",
                        <<S_delete_ \o S_bogus \o S_us \o main_tabs \o S_us
                          \o NewTabId(main_tabs, 1)>>)
    /\ NewTabId(main_tabs, 1) \in PaneIds(panes[main_tabs])

\* The widget add_tab put into a tab: the child of its VerticalScroll.
HostedWidget(pane) == pane.children[3]

\* Every tab named by one of the six kind tokens hosts the widget of that
\* kind bound to the shared data store; every other tab hosts a Static whose
\* text has the token in it.
C13_FactoryInv ==
    \A r \in {main_tabs, small_tabs_1, small_tabs_2, medium_tabs} :
        \A i \in 1..Len(TabsOf(r)) :
            LET pane == TabsOf(r)[i]
                widget == HostedWidget(pane)
            IN IF pane.label \in {"RawResponses", "Registers", "Stack", "Output",
                                  "Disassembly", "Backtrace"}
               THEN widget = [class |-> pane.label, data_store |-> "self.data_store"]
               ELSE /\ widget.class = "Static"
                    /\ \E k \in 1..Len(widget.content) : widget.content[k] = pane.label

\* add_tab(r, kind) on a known region raises nothing and adds one tab named
\* kind to r, whatever kind is.
C13_AddStep ==
    \A r \in {main_tabs, small_tabs_1, small_tabs_2, medium_tabs} :
        (last_call'.op = "add_tab" /\ last_call'.args[1] = r) =>
            /\ error' = NoError
            /\ Len(panes'[r]) = Len(panes[r]) + 1
            /\ \E i \in 1..Len(TabsOf(r)') :
                   /\ TabsOf(r)'[i].label = last_call'.args[2]
                   /\ TabsOf(r)'[i].id \notin PaneIds(panes[r])

\* C13: the widget factory maps each of RawResponses, Registers, Stack,
\* Output, Disassembly, Backtrace to the widget of that kind bound to the
\* shared data store and every other token to a placeholder whose text
\* contains the token, without raising; add_tab with an unknown kind still
\* adds a tab, hosting the placeholder.
C13_Factory == []C13_FactoryInv /\ [][C13_AddStep]_vars

\* C13 witness: add_tab(main_tabs, "Frobnicate") was just called and the tab
\* it added hosts a Static.
C13_Witness ==
    /\ last_call = Call("add_tab", <<main_tabs, "Frobnicate">>)
    /\ \E i \in 1..Len(TabsOf(main_tabs)) :
           /\ TabsOf(main_tabs)[i].label = "Frobnicate"
           /\ HostedWidget(TabsOf(main_tabs)[i]).class = "Static"

\* C14: a key event while the command input is not focused changes neither
\* the cursor nor the input value and is not stopped; a key event changes the
\* cursor or the input value only if the input is focused and the key is Up
\* or Down.
C14_KeysNeedFocus ==
    [][last_call'.op = "on_key" =>
           /\ ~has_focus =>
                  /\ UNCHANGED <<history_index, input_value>>
                  /\ ~stopped'
                  /\ error' = NoError
           /\ (history_index' # history_index \/ input_value' # input_value) =>
                  /\ has_focus
                  /\ last_call'.args[1] \in {"up", "down"}]_vars

\* C14 witness: Up arrived while the input is not focused, with a command in
\* the history and the cursor past it, so a focused Up would have moved the
\* cursor and filled the input.
C14_Witness ==
    /\ last_call = Call("on_key", <<"up">>)
    /\ ~has_focus
    /\ ~stopped
    /\ Len(command_history) >= 1
    /\ history_index = Len(command_history)
    /\ input_value # command_history[Len(command_history)]

\* A press of region r's add button opens the picker for r.
C15_PressOpens ==
    \A r \in {main_tabs, small_tabs_1, small_tabs_2, medium_tabs} :
        last_call' = Call("on_button_pressed", <<S_add_ \o r>>) =>
            /\ selector = NoSelector
            /\ selector' = r

\* While the picker is open, a step that is not its callback leaves the
\* region it was opened for, every counter and every region's panes alone.
C15_PendingKept ==
    (selector # NoSelector /\ last_call'.op # "_on_widget_choice") =>
        UNCHANGED <<selector, tab_counters, panes>>

\* The callback that delivers None changes no counter and no pane; the one
\* that delivers a kind adds one tab of that kind to the region the picker
\* was opened for, and nothing to any other.
C15_CallbackStep ==
    last_call'.op = "_on_widget_choice" =>
        LET choice == last_call'.args[1]
            r == selector
        IN /\ selector \in {main_tabs, small_tabs_1, small_tabs_2, medium_tabs}
           /\ last_call'.args[2] = selector
           /\ IF choice = None
              THEN UNCHANGED <<tab_counters, panes, issued>>
              ELSE /\ tab_counters' = [tab_counters EXCEPT ![r] = @ + 1]
                   /\ Len(panes'[r]) = Len(panes[r]) + 1
                   /\ \A q \in DOMAIN panes : q # r => panes'[q] = panes[q]
                   /\ \A i \in 1..Len(panes[r]) : panes[r][i].id \in PaneIds(panes'[r])
                   /\ \E i \in 1..Len(panes'[r]) :
                          /\ panes'[r][i].id \notin PaneIds(panes[r])
                          /\ panes'[r][i].label = choice

\* C15: when the picker's callback delivers no selection, no tab is created
\* and no counter changes; when it delivers a kind, exactly one tab is added,
\* to the region whose add button opened the picker, whatever poll ticks, key
\* events and submissions came between the press and the callback.
C15_PickerCallback ==
    [][C15_PressOpens /\ C15_PendingKept /\ C15_CallbackStep]_vars

\* C15 witness: the picker opened from small_tabs_2's add button delivered
\* "Output" after other handlers had run, and the tab is in small_tabs_2.
C15_Witness ==
    /\ last_call = Call("_on_widget_choice", <<"Output", small_tabs_2, TRUE>>)
    /\ Len(TabsOf(small_tabs_2)) = 1
    /\ TabsOf(small_tabs_2)[1].label = "Output"
    /\ SumCounters = 1

\* Once the view is torn down, no step takes a response from the process,
\* runs check_coreminer_output or broadcasts.
C16_NoTickAfterTeardown ==
    ~mounted =>
        /\ responses'.taken = responses.taken
        /\ last_call' = last_call
        /\ broadcasts' = 0
        /\ update_log' = << >>

C17_IsTick == last_call'.op = "check_coreminer_output" /\ responses'.made = responses.made

\* A tick makes one check: it takes the one response waiting, if there is
\* one, and then broadcasts once; if there is none it updates no widget.
C17_TickStep ==
    C17_IsTick =>
        IF responses.taken < responses.made
        THEN /\ responses'.taken = responses.taken + 1
             /\ last_call'.args = <<TRUE>>
             /\ broadcasts' = 1
        ELSE /\ responses'.taken = responses.taken
             /\ last_call'.args = <<FALSE>>
             /\ broadcasts' = 0
             /\ update_log' = << >>

\* Only a tick takes a response or broadcasts.
C17_OnlyTicks ==
    (responses'.taken # responses.taken \/ (broadcasts' = 1 /\ responses'.made = responses.made))
        => C17_IsTick

\* C17: each poll tick performs one response check; a tick whose check
\* returns no response updates no widget and one whose check returns a
\* response broadcasts once. With the interval firing for as long as the
\* view is mounted, every response the process makes available is followed
\* by a broadcast.
C17_TickBroadcasts ==
    /\ [][C17_TickStep /\ C17_OnlyTicks]_vars
    /\ \A n \in 1..MaxResponses :
           (responses.made >= n) ~> (responses.taken >= n \/ ~mounted)

\* C17 witness: a tick has just taken the second response and broadcast it
\* to an Output widget.
C17_Witness ==
    /\ last_call = Call("check_coreminer_output", <<TRUE>>)
    /\ broadcasts = 1
    /\ responses.taken = 2
    /\ Len(update_log) = 1
    /\ mounted

\* add_tab for region r, called or reached from the picker's callback, adds 1
\* to r's counter and changes r's panes; every other counter, every other
\* region's panes, the history and the cursor stay.
C18_AddStep ==
    \A r \in {main_tabs, small_tabs_1, small_tabs_2, medium_tabs} :
        (\/ last_call'.op = "add_tab" /\ last_call'.args[1] = r
         \/ /\ last_call'.op = "_on_widget_choice"
            /\ last_call'.args[1] # None
            /\ last_call'.args[2] = r) =>
            /\ tab_counters'[r] = tab_counters[r] + 1
            /\ panes'[r] # panes[r]
            /\ \A q \in {main_tabs, small_tabs_1, small_tabs_2, medium_tabs} \ {r} :
                   /\ tab_counters'[q] = tab_counters[q]
                   /\ panes'[q] = panes[q]
            /\ UNCHANGED <<command_history, history_index>>

\* delete_tab with a button id that names region r changes no counter, no
\* other region's panes, and neither the history nor the cursor.
C18_DeleteStep ==
    \A r \in {main_tabs, small_tabs_1, small_tabs_2, medium_tabs} :
        (/\ last_call'.op \in {"delete_tab", "on_button_pressed"}
         /\ StartsWith(last_call'.args[1], S_delete_ \o r \o S_us)) =>
            /\ tab_counters' = tab_counters
            /\ \A q \in {main_tabs, small_tabs_1, small_tabs_2, medium_tabs} \ {r} :
                   panes'[q] = panes[q]
            /\ UNCHANGED <<command_history, history_index>>

\* C18: the four regions are independent: an add_tab for region r adds
\* exactly 1 to r's counter only and changes only r's tabs, a delete_tab that
\* resolves to r changes only r's tabs, and both leave the other regions'
\* counters and tabs, the command history and the cursor as they were.
C18_RegionsIndependent == [][C18_AddStep /\ C18_DeleteStep]_vars

\* C18 witness: main_tabs' first tab was just closed while small_tabs_1
\* keeps its own first tab, both counters standing at 1.
C18_Witness ==
    /\ last_call.op \in {"delete_tab", "on_button_pressed"}
    /\ last_call.args = <<DeleteButtonId(main_tabs, NewTabId(main_tabs, 1))>>
    /\ TabsOf(main_tabs) = << >>
    /\ tab_counters[main_tabs] = 1
    /\ tab_counters[small_tabs_1] = 1
    /\ Len(TabsOf(small_tabs_1)) = 1
    /\ TabsOf(small_tabs_1)[1].id = NewTabId(small_tabs_1, 1)

\* s is t with blanks, and only blanks, around it.
BlanksAround(s, t) ==
    \E i \in 0..Len(s) :
        /\ i + Len(t) <= Len(s)
        /\ SubSeq(s, i + 1, i + Len(t)) = t
        /\ \A k \in (1..i) \cup ((i + Len(t) + 1)..Len(s)) : s[k] \in {" ", "\t", "\n"}

\* A submission of the command input whose value is empty or blank sends
\* nothing, clears the input and puts the cursor past the history; any other
\* sends its trimmed value, once, after the commands sent before.
C19_SubmitStep ==
    (last_call'.op = "on_input_submitted" /\ last_call'.args[1] = command_input) =>
        LET value == last_call'.args[2]
        IN IF BlanksAround(value, << >>)
           THEN /\ parsed' = parsed
                /\ command_history' = command_history
                /\ input_value' = << >>
                /\ history_index' = Len(command_history)
           ELSE /\ Len(parsed') = Len(parsed) + 1
                /\ SubSeq(parsed', 1, Len(parsed)) = parsed
                /\ LET sent == parsed'[Len(parsed')]
                   IN /\ sent # << >>
                      /\ sent[1] \notin {" ", "\t", "\n"}
                      /\ sent[Len(sent)] \notin {" ", "\t", "\n"}
                      /\ BlanksAround(value, sent)

\* Nothing but a submission of the command input sends a command.
C19_OtherStep ==
    ~(last_call'.op = "on_input_submitted" /\ last_call'.args[1] = command_input) =>
        parsed' = parsed

\* C19: in every reachable state the commands passed to parse_command are
\* the command history: each non-empty trimmed submission is sent once, in
\* submission order, and an empty or blank submission sends nothing, it only
\* clears the input and resets the cursor.
C19_SentIsHistory ==
    [](parsed = command_history) /\ [][C19_SubmitStep /\ C19_OtherStep]_vars

\* C19 witness: a blank submission after " b " was submitted as the second
\* command: "a" and "b" were sent, the input is empty, the cursor is at 2.
C19_Witness ==
    /\ last_call = Call("on_input_submitted", <<command_input, <<" ">> >>)
    /\ parsed = << <<"a">>, <<"b">> >>
    /\ command_history = parsed
    /\ input_value = << >>
    /\ history_index = 2

\* C20: in every reachable state the tabs of each region other than its
\* "[+]" tab stand in strictly increasing order of their ordinals, each
\* ordinal is at least 1 and at most the region's counter, and the region
\* has at most as many such tabs as its counter says.
C20_TabsInCreationOrder ==
    \A r \in {main_tabs, small_tabs_1, small_tabs_2, medium_tabs} :
        LET tabs == TabsOf(r)
            Ordinals(i) == {n \in 1..tab_counters[r] :
                                tabs[i].id = r \o S_tab_ \o IntToStr(n)}
        IN /\ Len(tabs) <= tab_counters[r]
           /\ \A i \in 1..Len(tabs) : Cardinality(Ordinals(i)) = 1
           /\ \A i, j \in 1..Len(tabs) :
                  i < j => \A n \in Ordinals(i), m \in Ordinals(j) : n < m

\* C20 witness: main_tabs holds its first and its second tab, in that order.
C20_Witness ==
    /\ tab_counters[main_tabs] = 2
    /\ Len(TabsOf(main_tabs)) = 2
    /\ TabsOf(main_tabs)[1].id = NewTabId(main_tabs, 1)
    /\ TabsOf(main_tabs)[2].id = NewTabId(main_tabs, 2)

====
